---- MODULE Spec2Model ----
(***************************************************************************)
(* Model of src/index.js: an Express server over ONE shared sqlite3        *)
(* connection (`db`) and an in-memory session store.                       *)
(*                                                                         *)
(* Every HTTP handler is a chain of callbacks.  One action of the model is *)
(* one link of such a chain: the SQL statement the previous link queued is *)
(* executed on the shared connection and its callback runs.  Statements of *)
(* different requests interleave freely (node-sqlite3 runs in parallel     *)
(* mode outside db.serialize), but each statement is atomic.  A statement  *)
(* queued without a callback (the compensating DELETE of save-user, the    *)
(* COMMIT / ROLLBACK of delete) is executed in a later step of its own,    *)
(* after the response has already been written.                            *)
(*                                                                         *)
(* The created_at columns are written once and read by no operation that   *)
(* decides anything; they are left out of the rows.                        *)
(***************************************************************************)
EXTENDS Integers, Sequences, FiniteSets, Bags

VARIABLES
    users,      \* table users:   id -> row | NoRow
    apikeys,    \* table apikeys: id -> row | NoRow
    seq,        \* sqlite_sequence of users (AUTOINCREMENT)
    admins,     \* table admins:  id -> row | NoRow
    adminSeq,   \* sqlite_sequence of admins
    inTx,       \* the connection has an open transaction
    snap,       \* the database as it was at BEGIN (what ROLLBACK restores)
    fkOn,       \* PRAGMA foreign_keys of the connection
    sess,       \* session store: session id -> adminId (0: no such session data)
    clock,      \* datetime('now')
    faults,     \* store failures injected so far
    req,        \* the requests in flight: a bag of callback-chain positions
    started,    \* requests received so far
    lastResp,   \* the response the latest step wrote, until it is sent (NoResp: none)
    up,         \* the node process is running
    revoked,    \* history: keys whose revoke/delete was acknowledged and
                \* that no later save-user stored again
    auth        \* history: session id -> its latest login success / logout

vars == <<users, apikeys, seq, admins, adminSeq, inTx, snap, fkOn, sess,
          clock, faults, req, started, lastResp, up, revoked, auth>>

dbvars == <<users, apikeys, seq, admins, adminSeq, inTx, snap, fkOn>>

----------------------------------------------------------------------------
(* Bounds *)

\* AUTOINCREMENT ids handed out to users are capped at MaxId.
MaxId == 2
\* datetime('now') takes the values 0..MaxClock.
MaxClock == 1
\* At most MaxFaults statements fail for a reason of the store (I/O, busy).
MaxFaults == 1
\* A run receives at most MaxReq requests,
MaxReq == 5
\* and at most MaxInFlight of them are being served at the same time.
MaxInFlight == 2

UserIds == 1..MaxId
AdminIds == 1..1
\* the ids a client can put in a path: 0 is the falsy one
PathIds == 0..MaxId
Sessions == {"s1"}
\* a request without a session cookie gets a fresh, empty req.session
NoCookie == "none"
Cookies == Sessions \cup {NoCookie}

NULL == -1
NoRow == [absent |-> TRUE]
\* what a request keeps in the closures of its callbacks
Ctx(op, pc) ==
    [op |-> op, pc |-> pc, id |-> 0, key |-> <<>>, firstname |-> "", lastname |-> "",
     email |-> "", s |-> "", password |-> "", hash |-> <<>>]
NoResp == [op |-> "none", status |-> 0, body |-> [none |-> TRUE]]
EmptySnap == [users |-> <<>>, apikeys |-> <<>>, seq |-> 0, admins |-> <<>>, adminSeq |-> 0]

----------------------------------------------------------------------------
(* Key Generator *)

LowerHexDigit(n) ==
    <<"0","1","2","3","4","5","6","7","8","9","a","b","c","d","e","f">>[n + 1]

\* String.prototype.toUpperCase on one character of a hex string
ToUpperChar(c) ==
    CASE c = "a" -> "A" [] c = "b" -> "B" [] c = "c" -> "C"
      [] c = "d" -> "D" [] c = "e" -> "E" [] c = "f" -> "F"
      [] OTHER -> c

ToUpperCase(s) == [i \in 1..Len(s) |-> ToUpperChar(s[i])]

RECURSIVE ToHex(_)
\* Buffer.toString('hex'): two lowercase hex digits per byte
ToHex(bytes) ==
    IF bytes = <<>> THEN <<>>
    ELSE <<LowerHexDigit(Head(bytes) \div 16), LowerHexDigit(Head(bytes) % 16)>>
         \o ToHex(Tail(bytes))

KeyPrefix == <<"U","W","U","N","T","U","-","A","P","I","-">>

\* makeApiKey, given the 8 bytes crypto.randomBytes returned
makeApiKey(randomBytes) == KeyPrefix \o ToUpperCase(ToHex(randomBytes))

UpperHexChars == {"0","1","2","3","4","5","6","7","8","9","A","B","C","D","E","F"}

\* /^UWUNTU-API-[A-F0-9]{16}$/.test(key)
MatchesKeyFormat(key) ==
    /\ Len(key) = Len(KeyPrefix) + 16
    /\ SubSeq(key, 1, Len(KeyPrefix)) = KeyPrefix
    /\ \A i \in (Len(KeyPrefix) + 1)..Len(key) : key[i] \in UpperHexChars

\* the byte strings crypto.randomBytes(8) returns in this model
RandomBytes == { <<0, 17, 34, 51, 171, 205, 239, 255>>,
                 <<222, 173, 190, 239, 1, 35, 69, 103>> }

\* the keys GET /api/generate-key hands out
GeneratedKeys == { makeApiKey(b) : b \in RandomBytes }

\* a key a client made up: the right shape, hex digits in lower case
LowerKey == KeyPrefix \o ToHex(<<222, 173, 190, 239, 1, 35, 69, 103>>)
\* a key a client made up: too short
ShortKey == KeyPrefix \o <<"A", "B">>

\* what clients send as apiKey to save-user; <<>> is the empty (or missing) string
SaveKeyInputs == {makeApiKey(<<0, 17, 34, 51, 171, 205, 239, 255>>), LowerKey, <<>>}
\* what clients send as key to validate
QueryKeyInputs == GeneratedKeys \cup {LowerKey, ShortKey, <<>>}
\* api_key of a user without a key in a LEFT JOIN
NullKey == <<"NULL">>

Firstnames == {"", "Ann"}
Lastnames == {"Lee"}
Emails == {"a@x", "b@x"}
AdminEmails == {"", "root@x"}
Passwords == {"", "pw", "bad"}

----------------------------------------------------------------------------
(* Persistence layer: the statements the handlers run on the connection *)

Present(t, id) == id \in DOMAIN t /\ t[id] # NoRow

\* variant: users.email without its UNIQUE constraint
EmailNeverTaken(email) == FALSE

\* the UNIQUE constraint on users.email
EmailTaken(email) == \E i \in UserIds : Present(users, i) /\ users[i].email = email

\* the UNIQUE constraint on apikeys.api_key
KeyTaken(key) == \E i \in UserIds : Present(apikeys, i) /\ apikeys[i].api_key = key

\* FOREIGN KEY (id) REFERENCES users(id): enforced only once the pragma is on
ForeignKeysEnforced == fkOn

\* INSERT INTO apikeys (id, api_key) fails on the primary key, on the UNIQUE
\* api_key, and on the foreign key when it is enforced
InsertKeyFails(id, key) ==
    \/ Present(apikeys, id)
    \/ KeyTaken(key)
    \/ ForeignKeysEnforced /\ ~Present(users, id)

\* DELETE FROM users WHERE id = ?  (ON DELETE CASCADE when enforced)
UsersAfterDelete(id) ==
    IF id \in UserIds THEN [users EXCEPT ![id] = NoRow] ELSE users

KeysAfterUserDelete(id) ==
    IF id \in UserIds /\ ForeignKeysEnforced /\ Present(users, id)
    THEN [apikeys EXCEPT ![id] = NoRow] ELSE apikeys

\* DELETE FROM apikeys WHERE id = ?
KeysAfterDelete(id) ==
    IF id \in UserIds THEN [apikeys EXCEPT ![id] = NoRow] ELSE apikeys

\* variant: UPDATE users SET is_online = ? WHERE id = ? (last_seen forgotten)
UsersAfterOnlineOnly(id, online, seen) ==
    IF Present(users, id)
    THEN [users EXCEPT ![id].is_online = online]
    ELSE users

\* UPDATE users SET is_online = ?, last_seen = ? WHERE id = ?
UsersAfterPresence(id, online, seen) ==
    IF Present(users, id)
    THEN [users EXCEPT ![id].is_online = online, ![id].last_seen = seen]
    ELSE users

\* the key string of row id of apikeys, NullKey when there is none
KeyOf(id) == IF Present(apikeys, id) THEN apikeys[id].api_key ELSE NullKey

\* SELECT ... FROM users u LEFT JOIN apikeys a ON a.id = u.id WHERE u.id = ?
JoinedRow(id) ==
    [id |-> id, firstname |-> users[id].firstname, lastname |-> users[id].lastname,
     email |-> users[id].email, api_key |-> KeyOf(id)]

ONLINE_WINDOW_SECONDS == 30 * 24 * 3600

\* the CASE ... END AS online_now of the list query
OnlineNow(id) ==
    users[id].last_seen # NULL /\ clock - users[id].last_seen <= ONLINE_WINDOW_SECONDS

ListRow(id) ==
    [id |-> id, firstname |-> users[id].firstname, lastname |-> users[id].lastname,
     email |-> users[id].email, last_seen |-> users[id].last_seen,
     online_now |-> OnlineNow(id), api_key |-> KeyOf(id)]

RECURSIVE ListRowsFrom(_)
\* the list query: ... ORDER BY u.id ASC, from id i on
ListRowsFrom(i) ==
    IF i > MaxId THEN <<>>
    ELSE (IF Present(users, i) THEN <<ListRow(i)>> ELSE <<>>) \o ListRowsFrom(i + 1)

ExportRow(id) ==
    [id |-> id, firstname |-> users[id].firstname, lastname |-> users[id].lastname,
     email |-> users[id].email, api_key |-> KeyOf(id), last_seen |-> users[id].last_seen]

RECURSIVE ExportRowsFrom(_)
\* the export query: ... ORDER BY u.id ASC, from id i on
ExportRowsFrom(i) ==
    IF i > MaxId THEN <<>>
    ELSE (IF Present(users, i) THEN <<ExportRow(i)>> ELSE <<>>) \o ExportRowsFrom(i + 1)

\* what BEGIN TRANSACTION remembers and ROLLBACK brings back
Database ==
    [users |-> users, apikeys |-> apikeys, seq |-> seq,
     admins |-> admins, adminSeq |-> adminSeq]

\* bcrypt.hash(password, 10) and bcrypt.compare(password, hash)
Hash(password) == <<"bcrypt", password>>
Compare(password, hash) == Hash(password) = hash

\* a statement may fail for a reason of the store, MaxFaults times in a run
FaultChoices == IF faults < MaxFaults THEN BOOLEAN ELSE {FALSE}
Inject(f) == faults' = IF f THEN faults + 1 ELSE faults

Respond(op, status, body) == lastResp' = [op |-> op, status |-> status, body |-> body]

\* a request arrives / moves on to its next callback / is over
\* the response of the previous step has left the server
Flushed == lastResp = NoResp
CanStart == up /\ Flushed /\ started < MaxReq /\ BagCardinality(req) < MaxInFlight
Arrive == started' = started + 1
InFlight(q, op, pc) == up /\ Flushed /\ BagIn(q, req) /\ q.op = op /\ q.pc = pc
Without(q) == req (-) SetToBag({q})
With(q) == req (+) SetToBag({q})
Goto(q, q2) == req' = Without(q) (+) SetToBag({q2})
Done(q) == req' = Without(q)
Err(text) == [error |-> text]
\* a step that writes no response
NoResponse == lastResp' = NoResp

\* requireAdmin: req.session && req.session.adminId
requireAdmin(s) == s \in Sessions /\ sess[s] # 0

----------------------------------------------------------------------------
\* The database file outlives the process (CREATE TABLE IF NOT EXISTS): the
\* server starts on a new file, or on one where an earlier run registered the
\* admin.  The session store is in memory and always starts empty.
Init ==
    /\ users = [i \in UserIds |-> NoRow]
    /\ apikeys = [i \in UserIds |-> NoRow]
    /\ seq = 0
    /\ \/ admins = [i \in AdminIds |-> NoRow] /\ adminSeq = 0
       \/ /\ admins = [i \in AdminIds |->
                          [email |-> "root@x", password_hash |-> Hash("pw")]]
          /\ adminSeq = 1
    /\ inTx = FALSE
    /\ snap = EmptySnap
    /\ fkOn = FALSE
    /\ sess = [s \in Sessions |-> 0]
    /\ clock = 0
    /\ faults = 0
    /\ req = EmptyBag
    /\ started = 0
    /\ lastResp = NoResp
    /\ up = TRUE
    /\ revoked = {}
    /\ auth = [s \in Sessions |-> "none"]

\* time passes
Tick ==
    /\ up /\ Flushed /\ clock < MaxClock
    /\ clock' = clock + 1
    /\ UNCHANGED <<dbvars, sess, faults, req, started, up, revoked, auth>> /\ NoResponse

\* res.json / res.end: the response written by the previous step is sent; the
\* server does nothing else in between (the handler's callback is one task
\* of the event loop)
Send ==
    /\ up /\ ~Flushed
    /\ lastResp' = NoResp
    /\ UNCHANGED <<dbvars, sess, clock, faults, req, started, up, revoked, auth>>

----------------------------------------------------------------------------
(* POST /api/save-user *)

\* the handler up to and including INSERT INTO users and its callback
SaveUser(firstname, lastname, email, apiKey, f) ==
    /\ CanStart /\ Arrive
    /\ UNCHANGED <<apikeys, admins, adminSeq, inTx, snap, fkOn, sess, clock, up, revoked, auth>>
    /\ IF firstname = "" \/ lastname = "" \/ email = "" \/ apiKey = <<>>
       THEN /\ ~f
            /\ Respond("save-user", 400, Err("firstname, lastname, email and apiKey required"))
            /\ UNCHANGED <<users, seq, faults, req>>
       ELSE IF f
       THEN /\ Respond("save-user", 500, Err("DB insert user failed"))
            /\ Inject(f)
            /\ UNCHANGED <<users, seq, req>>
       ELSE IF EmailTaken(email)
       THEN /\ Respond("save-user", 409, Err("Email already exists"))
            /\ UNCHANGED <<users, seq, faults, req>>
       ELSE /\ seq < MaxId
            /\ users' = [users EXCEPT ![seq + 1] =
                            [firstname |-> firstname, lastname |-> lastname,
                             email |-> email, is_online |-> FALSE, last_seen |-> NULL]]
            /\ seq' = seq + 1
            /\ req' = With([Ctx("save-user", "insert_key") EXCEPT
                               !.id = seq + 1, !.firstname = firstname,
                               !.lastname = lastname, !.email = email, !.key = apiKey])
            /\ UNCHANGED faults /\ NoResponse

\* INSERT INTO apikeys and its callback
SaveInsertKey(q, f) ==
    /\ InFlight(q, "save-user", "insert_key")
    /\ Inject(f)
    /\ UNCHANGED <<users, seq, admins, adminSeq, inTx, snap, fkOn, sess, clock, started, up, auth>>
    /\ IF f \/ InsertKeyFails(q.id, q.key)
       THEN \* db.run('DELETE ...') is queued, the response is written at once
            /\ Respond("save-user", 500, Err("DB insert apikey failed"))
            /\ Goto(q, [q EXCEPT !.pc = "compensate"])
            /\ UNCHANGED <<apikeys, revoked>>
       ELSE /\ apikeys' = [apikeys EXCEPT ![q.id] = [api_key |-> q.key]]
            /\ Goto(q, [q EXCEPT !.pc = "fetch"])
            /\ revoked' = revoked \ {q.key}
            /\ NoResponse

\* the queued 'DELETE FROM users WHERE id = ?' runs; it has no callback
SaveCompensate(q, f) ==
    /\ InFlight(q, "save-user", "compensate")
    /\ Inject(f)
    /\ users' = IF f THEN users ELSE UsersAfterDelete(q.id)
    /\ apikeys' = IF f THEN apikeys ELSE KeysAfterUserDelete(q.id)
    /\ Done(q)
    /\ UNCHANGED <<seq, admins, adminSeq, inTx, snap, fkOn, sess, clock, started, up, revoked, auth>> /\ NoResponse

\* the read-back db.get and its callback
SaveFetch(q, f) ==
    /\ InFlight(q, "save-user", "fetch")
    /\ Inject(f)
    /\ Done(q)
    /\ UNCHANGED <<dbvars, sess, clock, started, revoked, auth>>
    /\ IF f
       THEN Respond("save-user", 500, Err("DB fetch after save failed")) /\ UNCHANGED up
       ELSE IF ~Present(users, q.id)
       THEN \* row is undefined: row.id throws in the callback, nothing is written,
            \* the uncaught exception ends the process
            up' = FALSE /\ NoResponse
       ELSE /\ Respond("save-user", 200, [success |-> TRUE, user |-> JoinedRow(q.id)])
            /\ UNCHANGED up

----------------------------------------------------------------------------
(* GET /api/validate *)

\* SELECT * FROM apikeys WHERE api_key = ?: the id of the row
KeyRowId(key) == CHOOSE i \in UserIds : Present(apikeys, i) /\ apikeys[i].api_key = key

\* the handler up to and including the SELECT on apikeys and its callback
Validate(key, f) ==
    /\ CanStart /\ Arrive
    /\ UNCHANGED <<dbvars, sess, clock, up, revoked, auth>>
    /\ IF key = <<>>
       THEN /\ ~f
            /\ Respond("validate", 400, [valid |-> FALSE, reason |-> "missing_key"])
            /\ UNCHANGED <<faults, req>>
       ELSE IF ~MatchesKeyFormat(key)
       THEN /\ ~f
            /\ Respond("validate", 400, [valid |-> FALSE, reason |-> "invalid_format"])
            /\ UNCHANGED <<faults, req>>
       ELSE IF f
       THEN /\ Respond("validate", 500, [valid |-> FALSE, reason |-> "db_error"])
            /\ Inject(f)
            /\ UNCHANGED req
       ELSE IF ~KeyTaken(key)
       THEN /\ Respond("validate", 404, [valid |-> FALSE, reason |-> "not_found"])
            /\ UNCHANGED <<faults, req>>
       ELSE /\ req' = With([Ctx("validate", "update") EXCEPT
                               !.id = KeyRowId(key), !.key = key])
            /\ UNCHANGED faults /\ NoResponse

\* the UPDATE of the owner's presence and its callback, which answers either way
ValidateUpdate(q, f) ==
    /\ InFlight(q, "validate", "update")
    /\ Inject(f)
    /\ users' = IF f THEN users ELSE UsersAfterPresence(q.id, TRUE, clock)
    /\ Respond("validate", 200, [valid |-> TRUE, key |-> q.key, status |-> "active"])
    /\ Done(q)
    /\ UNCHANGED <<apikeys, seq, admins, adminSeq, inTx, snap, fkOn, sess, clock,
                   started, up, revoked, auth>>

----------------------------------------------------------------------------
(* POST /api/user/:id/online and /offline *)

SetOnline(id, f) ==
    /\ CanStart /\ Arrive
    /\ Inject(f)
    /\ users' = IF f THEN users ELSE UsersAfterPresence(id, TRUE, clock)
    /\ IF f THEN Respond("online", 500, Err("store"))
            ELSE Respond("online", 200, [success |-> TRUE])
    /\ UNCHANGED <<apikeys, seq, admins, adminSeq, inTx, snap, fkOn, sess, clock, req,
                   up, revoked, auth>>

SetOffline(id, f) ==
    /\ CanStart /\ Arrive
    /\ Inject(f)
    /\ users' = IF f THEN users ELSE UsersAfterPresence(id, FALSE, NULL)
    /\ IF f THEN Respond("offline", 500, Err("store"))
            ELSE Respond("offline", 200, [success |-> TRUE])
    /\ UNCHANGED <<apikeys, seq, admins, adminSeq, inTx, snap, fkOn, sess, clock, req,
                   up, revoked, auth>>

----------------------------------------------------------------------------
(* Admin auth *)

AdminEmailTaken(email) == \E i \in AdminIds : Present(admins, i) /\ admins[i].email = email

\* SELECT id, email, password_hash FROM admins WHERE email = ?: the id of the row
AdminByEmail(email) == CHOOSE i \in AdminIds : Present(admins, i) /\ admins[i].email = email

\* POST /admin/register: hashPasswordMiddleware, then the INSERT and its callback
Register(email, password, f) ==
    /\ CanStart /\ Arrive
    /\ UNCHANGED <<users, apikeys, seq, inTx, snap, fkOn, sess, clock, req, up, revoked, auth>>
    /\ IF password = ""
       THEN /\ ~f
            /\ Respond("register", 400, Err("password required"))
            /\ UNCHANGED <<admins, adminSeq, faults>>
       ELSE IF email = ""
       THEN /\ ~f
            /\ Respond("register", 400, Err("email & password required"))
            /\ UNCHANGED <<admins, adminSeq, faults>>
       ELSE IF f
       THEN /\ Respond("register", 500, Err("store"))
            /\ Inject(f)
            /\ UNCHANGED <<admins, adminSeq>>
       ELSE IF AdminEmailTaken(email)
       THEN /\ Respond("register", 409, Err("Admin email exists"))
            /\ UNCHANGED <<admins, adminSeq, faults>>
       ELSE /\ adminSeq + 1 \in AdminIds
            /\ admins' = [admins EXCEPT ![adminSeq + 1] =
                             [email |-> email, password_hash |-> Hash(password)]]
            /\ adminSeq' = adminSeq + 1
            /\ Respond("register", 200, [success |-> TRUE, adminId |-> adminSeq + 1])
            /\ UNCHANGED faults

\* POST /admin/login up to and including the SELECT on admins and its callback
Login(s, email, password, f) ==
    /\ CanStart /\ Arrive
    /\ UNCHANGED <<dbvars, sess, clock, up, revoked, auth>>
    /\ IF email = "" \/ password = ""
       THEN /\ ~f
            /\ Respond("login", 400, Err("email & password required"))
            /\ UNCHANGED <<faults, req>>
       ELSE IF f
       THEN /\ Respond("login", 500, Err("store"))
            /\ Inject(f)
            /\ UNCHANGED req
       ELSE IF ~AdminEmailTaken(email)
       THEN /\ Respond("login", 401, Err("Invalid credentials"))
            /\ UNCHANGED <<faults, req>>
       ELSE /\ req' = With([Ctx("login", "compare") EXCEPT
                               !.s = s, !.password = password, !.id = AdminByEmail(email),
                               !.hash = admins[AdminByEmail(email)].password_hash])
            /\ UNCHANGED faults /\ NoResponse

\* req.session.adminId = row.id
SessionAfterLogin(s, adminId) == [sess EXCEPT ![s] = adminId]

\* await bcrypt.compare, then the session is written and the answer sent
LoginCompare(q) ==
    /\ InFlight(q, "login", "compare")
    /\ Done(q)
    /\ UNCHANGED <<dbvars, clock, faults, started, up, revoked>>
    /\ IF ~Compare(q.password, q.hash)
       THEN /\ Respond("login", 401, Err("Invalid credentials"))
            /\ UNCHANGED <<sess, auth>>
       ELSE /\ sess' = SessionAfterLogin(q.s, q.id)
            /\ Respond("login", 200, [success |-> TRUE])
            /\ auth' = [auth EXCEPT ![q.s] = "login"]

\* variant: logout answers without destroying the session
SessionKeptOnLogout(s) == sess

\* req.session.destroy
SessionAfterDestroy(s) == IF s \in Sessions THEN [sess EXCEPT ![s] = 0] ELSE sess

\* POST /admin/logout
Logout(s) ==
    /\ CanStart /\ Arrive
    /\ sess' = SessionAfterDestroy(s)
    /\ Respond("logout", 200, [success |-> TRUE])
    /\ auth' = IF s \in Sessions THEN [auth EXCEPT ![s] = "logout"] ELSE auth
    /\ UNCHANGED <<dbvars, clock, faults, req, up, revoked>>

----------------------------------------------------------------------------
(* Admin management: every route runs requireAdmin first *)

Unauthorized(op) == Respond(op, 401, Err("Unauthorized"))

\* GET /admin/api/users: the guard; the query is queued
ListUsers(s) ==
    /\ CanStart /\ Arrive
    /\ UNCHANGED <<dbvars, sess, clock, faults, up, revoked, auth>>
    /\ IF ~requireAdmin(s)
       THEN Unauthorized("list") /\ UNCHANGED req
       ELSE req' = With(Ctx("list", "query")) /\ NoResponse

\* db.all of the list query and its callback
ListQuery(q, f) ==
    /\ InFlight(q, "list", "query")
    /\ Inject(f)
    /\ IF f THEN Respond("list", 500, Err("store"))
            ELSE Respond("list", 200, [users |-> ListRowsFrom(1)])
    /\ Done(q)
    /\ UNCHANGED <<dbvars, sess, clock, started, up, revoked, auth>>

\* GET /admin/api/export: the guard; the query is queued
ExportCsv(s) ==
    /\ CanStart /\ Arrive
    /\ UNCHANGED <<dbvars, sess, clock, faults, up, revoked, auth>>
    /\ IF ~requireAdmin(s)
       THEN Unauthorized("export") /\ UNCHANGED req
       ELSE req' = With(Ctx("export", "query")) /\ NoResponse

\* db.all of the export query and its callback (the rows written, one line each)
ExportQuery(q, f) ==
    /\ InFlight(q, "export", "query")
    /\ Inject(f)
    /\ IF f THEN Respond("export", 500, Err("store"))
            ELSE Respond("export", 200, [csv |-> ExportRowsFrom(1)])
    /\ Done(q)
    /\ UNCHANGED <<dbvars, sess, clock, started, up, revoked, auth>>

\* POST /admin/api/user/:id/revoke: the guard; the DELETE is queued
RevokeKey(s, id) ==
    /\ CanStart /\ Arrive
    /\ UNCHANGED <<dbvars, sess, clock, faults, up, revoked, auth>>
    /\ IF ~requireAdmin(s)
       THEN Unauthorized("revoke") /\ UNCHANGED req
       ELSE /\ req' = With([Ctx("revoke", "delete_key") EXCEPT !.id = id])
            /\ NoResponse

\* DELETE FROM apikeys WHERE id = ? and its callback
RevokeDelete(q, f) ==
    /\ InFlight(q, "revoke", "delete_key")
    /\ Inject(f)
    /\ Done(q)
    /\ UNCHANGED <<users, seq, admins, adminSeq, inTx, snap, fkOn, sess, clock, started, up, auth>>
    /\ IF f
       THEN Respond("revoke", 500, Err("store")) /\ UNCHANGED <<apikeys, revoked>>
       ELSE /\ apikeys' = KeysAfterDelete(q.id)
            /\ revoked' = revoked \cup ({KeyOf(q.id)} \ {NullKey})
            /\ Respond("revoke", 200, [success |-> TRUE])

\* POST /admin/api/user/:id/delete: the guard and the id check; the
\* db.serialize block is queued
DeleteUser(s, id) ==
    /\ CanStart /\ Arrive
    /\ UNCHANGED <<dbvars, sess, clock, faults, up, revoked, auth>>
    /\ IF ~requireAdmin(s)
       THEN Unauthorized("delete") /\ UNCHANGED req
       ELSE IF id = 0
       THEN Respond("delete", 400, Err("invalid id")) /\ UNCHANGED req
       ELSE /\ req' = With([Ctx("delete", "block") EXCEPT !.id = id])
            /\ NoResponse

\* variant: deleteUser without its PRAGMA foreign_keys = ON
PragmaNotIssued == fkOn

\* PRAGMA foreign_keys = ON is a no-op inside a transaction
PragmaForeignKeysOn == IF inTx THEN fkOn ELSE TRUE

\* the serialized block: PRAGMA; BEGIN TRANSACTION; DELETE FROM apikeys and
\* its callback.  BEGIN inside an open transaction fails and nobody looks.
\* The request remembers (history) the key string its DELETE removed.
DeleteBlock(q, f) ==
    /\ InFlight(q, "delete", "block")
    /\ Inject(f)
    /\ fkOn' = PragmaForeignKeysOn
    /\ inTx' = TRUE
    /\ snap' = IF inTx THEN snap ELSE Database
    /\ UNCHANGED <<users, seq, admins, adminSeq, sess, clock, started, up, revoked, auth>>
    /\ IF f
       THEN /\ Respond("delete", 500, Err("delete_keys_failed"))
            /\ Goto(q, [q EXCEPT !.pc = "rollback", !.key = NullKey])
            /\ UNCHANGED apikeys
       ELSE /\ apikeys' = KeysAfterDelete(q.id)
            /\ Goto(q, [q EXCEPT !.pc = "delete_user", !.key = KeyOf(q.id)])
            /\ NoResponse

\* DELETE FROM users and its callback: COMMIT or ROLLBACK is queued and the
\* response is written at once
DeleteUserRow(q, f) ==
    /\ InFlight(q, "delete", "delete_user")
    /\ Inject(f)
    /\ UNCHANGED <<seq, admins, adminSeq, inTx, snap, fkOn, sess, clock, started, up, auth>>
    /\ IF f
       THEN /\ Respond("delete", 500, Err("delete_user_failed"))
            /\ Goto(q, [q EXCEPT !.pc = "rollback"])
            /\ UNCHANGED <<users, apikeys, revoked>>
       ELSE /\ users' = UsersAfterDelete(q.id)
            /\ apikeys' = KeysAfterUserDelete(q.id)
            /\ revoked' = revoked \cup
                   (({KeyOf(q.id)} \cup (IF KeyTaken(q.key) THEN {} ELSE {q.key}))
                    \ {NullKey})
            /\ Respond("delete", 200, [success |-> TRUE])
            /\ Goto(q, [q EXCEPT !.pc = "commit"])

\* the queued ROLLBACK runs: it ends whatever transaction the connection has
\* open, and fails unseen when there is none
Rollback(q) ==
    /\ InFlight(q, "delete", "rollback")
    /\ IF inTx
       THEN /\ users' = snap.users /\ apikeys' = snap.apikeys /\ seq' = snap.seq
            /\ admins' = snap.admins /\ adminSeq' = snap.adminSeq
       ELSE UNCHANGED <<users, apikeys, seq, admins, adminSeq>>
    /\ inTx' = FALSE
    /\ snap' = EmptySnap
    /\ Done(q)
    /\ UNCHANGED <<fkOn, sess, clock, faults, started, up, revoked, auth>> /\ NoResponse

\* the queued COMMIT runs
Commit(q) ==
    /\ InFlight(q, "delete", "commit")
    /\ inTx' = FALSE
    /\ snap' = EmptySnap
    /\ Done(q)
    /\ UNCHANGED <<users, apikeys, seq, admins, adminSeq, fkOn, sess, clock, faults,
                   started, up, revoked, auth>> /\ NoResponse

----------------------------------------------------------------------------
\* the requests in flight
Q == BagToSet(req)

Next ==
    \/ Tick
    \/ Send
    \/ \E fn \in Firstnames, ln \in Lastnames, em \in Emails,
          k \in SaveKeyInputs, f \in FaultChoices : SaveUser(fn, ln, em, k, f)
    \/ \E q \in Q, f \in FaultChoices : SaveInsertKey(q, f)
    \/ \E q \in Q, f \in FaultChoices : SaveCompensate(q, f)
    \/ \E q \in Q, f \in FaultChoices : SaveFetch(q, f)
    \/ \E k \in QueryKeyInputs, f \in FaultChoices : Validate(k, f)
    \/ \E q \in Q, f \in FaultChoices : ValidateUpdate(q, f)
    \/ \E id \in PathIds, f \in FaultChoices : SetOnline(id, f)
    \/ \E id \in PathIds, f \in FaultChoices : SetOffline(id, f)
    \/ \E em \in AdminEmails, pw \in Passwords, f \in FaultChoices : Register(em, pw, f)
    \/ \E s \in Sessions, em \in AdminEmails, pw \in Passwords, f \in FaultChoices :
          Login(s, em, pw, f)
    \/ \E q \in Q : LoginCompare(q)
    \/ \E s \in Cookies : Logout(s)
    \/ \E s \in Cookies : ListUsers(s)
    \/ \E q \in Q, f \in FaultChoices : ListQuery(q, f)
    \/ \E s \in Cookies : ExportCsv(s)
    \/ \E q \in Q, f \in FaultChoices : ExportQuery(q, f)
    \/ \E s \in Cookies, id \in PathIds : RevokeKey(s, id)
    \/ \E q \in Q, f \in FaultChoices : RevokeDelete(q, f)
    \/ \E s \in Cookies, id \in PathIds : DeleteUser(s, id)
    \/ \E q \in Q, f \in FaultChoices : DeleteBlock(q, f)
    \/ \E q \in Q, f \in FaultChoices : DeleteUserRow(q, f)
    \/ \E q \in Q : Rollback(q)
    \/ \E q \in Q : Commit(q)

Spec == Init /\ [][Next]_vars


----------------------------------------------------------------------------
(* Properties                                                              *)

\* the user that holds key k, 0 when k is not stored (the row itself is read,
\* not the lookup operator of the validate handler)
OwnerOf(k) ==
    IF \E i \in UserIds : apikeys[i] # NoRow /\ apikeys[i].api_key = k
    THEN CHOOSE i \in UserIds : apikeys[i] # NoRow /\ apikeys[i].api_key = k
    ELSE 0

\* C1: from the moment saveUser has reported the failure of its key insert,
\* the user row it created is gone (no user is left without an api key by a
\* failed call).
C1_NoOrphanOnceFailureReported ==
    \A q \in Q :
        (q.op = "save-user" /\ q.pc = "compensate") => ~Present(users, q.id)

\* C2: every row of apikeys belongs to a row of users, in every state that
\* interleavings of saveUser, revokeKey and deleteUser can reach.
C2_KeyHasUser ==
    \A i \in UserIds : Present(apikeys, i) => Present(users, i)

\* C2 case: deleteUser removed the user between the two inserts of a
\* saveUser, and the key insert was refused by the enforced foreign key.
C2_Witness ==
    \E q \in Q :
        /\ q.op = "save-user" /\ q.pc = "compensate"
        /\ ForeignKeysEnforced
        /\ ~Present(users, q.id) /\ ~Present(apikeys, q.id)
        /\ ~KeyTaken(q.key)

\* C3: deleteUser(id) is all or nothing, also when it overlaps other calls:
\* a success answer leaves neither the user row nor the key row of id, and
\* the ROLLBACK of a failed call puts back the key row the call had removed
\* (and the user row it never removed is still there).
C3_DeleteAllOrNothing ==
    [][\A q \in Q :
          /\ (DeleteUserRow(q, FALSE) =>
                 ~Present(users', q.id) /\ ~Present(apikeys', q.id))
          /\ ((Rollback(q) /\ q.key # NullKey) =>
                 apikeys'[q.id] = [api_key |-> q.key])
      ]_vars

\* an admin management request arrives with cookie s
AdminArrival(s) ==
    \/ ListUsers(s)
    \/ ExportCsv(s)
    \/ \E id \in PathIds : RevokeKey(s, id) \/ DeleteUser(s, id)

\* C4: listUsers, exportCsv, revokeKey and deleteUser pass the guard exactly
\* when the session's latest login/logout event is a successful login; any
\* other request is answered 401 Unauthorized, starts nothing and leaves
\* users and apikeys unchanged.
C4_AdminOnlyWhenLoggedIn ==
    [][\A s \in Cookies :
          AdminArrival(s) =>
             IF s \in Sessions /\ auth[s] = "login"
             THEN lastResp'.status # 401
             ELSE /\ lastResp'.status = 401
                  /\ lastResp'.body = Err("Unauthorized")
                  /\ req' = req
                  /\ users' = users /\ apikeys' = apikeys
      ]_vars

\* C4 case: after login and logout, a revokeKey for a user that holds a key
\* was answered Unauthorized.
C4_Witness ==
    /\ auth["s1"] = "logout"
    /\ lastResp.op = "revoke" /\ lastResp.status = 401
    /\ \E i \in UserIds : Present(apikeys, i)

\* C5: saveUser with complete fields and an email some user row already has
\* is answered 409 "Email already exists", inserts no user row, no key row,
\* and starts no key insert (no store error on the insert itself).
C5_DuplicateEmailRejected ==
    [][\A fn \in Firstnames, ln \in Lastnames, em \in Emails, k \in SaveKeyInputs :
          ( /\ SaveUser(fn, ln, em, k, FALSE)
            /\ fn # "" /\ ln # "" /\ em # "" /\ k # <<>>
            /\ \E i \in UserIds : users[i] # NoRow /\ users[i].email = em )
          => /\ lastResp'.status = 409
             /\ lastResp'.body = Err("Email already exists")
             /\ users' = users /\ apikeys' = apikeys /\ seq' = seq
             /\ req' = req
      ]_vars

\* C5 case: a saveUser was answered 409 while a user with a key is stored.
C5_Witness ==
    /\ lastResp.op = "save-user" /\ lastResp.status = 409
    /\ \E i \in UserIds : Present(users, i) /\ Present(apikeys, i)

\* C6: every api_key stored in apikeys has the generated format
\* UWUNTU-API- followed by 16 upper-case hex digits, whatever clients pass.
C6_StoredKeysWellFormed ==
    \A i \in UserIds :
        Present(apikeys, i) => MatchesKeyFormat(apikeys[i].api_key)

C8_SaveAnsweredWithRecord ==
    [][\A q \in Q :
          SaveFetch(q, FALSE) =>
             lastResp' = [op |-> "save-user", status |-> 200,
                          body |-> [success |-> TRUE,
                                    user |-> [id |-> q.id,
                                              firstname |-> q.firstname,
                                              lastname |-> q.lastname,
                                              email |-> q.email,
                                              api_key |-> q.key]]]
      ]_vars

\* C9: the ROLLBACK of a failed deleteUser(id) restores only rows of id: the
\* presence columns of every other user, which setOnline, setOffline and
\* validateKey write and acknowledge in one step, are left as they are.
C9_RollbackKeepsOtherWrites ==
    [][\A q \in Q :
          Rollback(q) =>
             \A i \in UserIds \ {q.id} :
                 (Present(users, i) /\ Present(users', i)) =>
                     /\ users'[i].is_online = users[i].is_online
                     /\ users'[i].last_seen = users[i].last_seen
      ]_vars

\* C10: once revokeKey or deleteUser has been acknowledged for the user that
\* held key k, and no later saveUser stored k again, validateKey(k) is
\* answered 404 not_found and starts no presence update (no store error on
\* the lookup).
C10_RevokedKeyStaysInvalid ==
    [][\A k \in QueryKeyInputs :
          (Validate(k, FALSE) /\ k \in revoked /\ MatchesKeyFormat(k))
          => /\ lastResp'.status = 404
             /\ lastResp'.body = [valid |-> FALSE, reason |-> "not_found"]
             /\ req' = req
      ]_vars

====
